---------------------------- MODULE Spec2Model ----------------------------
(***************************************************************************)
(* Model of Gems/LyShine/Code/Include/LyShine/IDraw2d.h: the IDraw2d       *)
(* screen-space draw interface and the inline Draw2dHelper scope object.   *)
(*                                                                         *)
(* Draw2dHelper is translated from the header.  IDraw2d is a pure virtual  *)
(* interface there; the behaviour of the engine behind it (immediate or    *)
(* deferred submission, the deferred queue, the sort key) is modelled from *)
(* the design document, and those definitions are marked as such in the    *)
(* model map.                                                              *)
(***************************************************************************)
EXTENDS Integers, Sequences, FiniteSets, TLC

(***************************************************************************)
(* Bounds of the model.                                                    *)
(***************************************************************************)
MaxHelpers == 3   \* helper objects alive at once (nesting depth)
MaxDraws == 3     \* draw submissions in one behaviour
MaxSets == 2      \* helper setter calls in one behaviour
MaxCalls == 3     \* calls of any kind in one behaviour of Spec

\* A null IDraw2d*.
NULL == "NULL"

\* What ret holds after a call that returns nothing.
void == <<"none">>

\* Option records are passed by pointer: nullptr, or AddressOf(record),
\* which Deref gives back.
nullptr == <<>>
AddressOf(record) == <<record>>
Deref(pointer) == pointer[1]

\* The engines of the model: the game's default one, reached through
\* gEnv->pLyShine->GetDraw2d(), and one more that only an explicit
\* constructor argument can name.
Engines == {"game", "other"}
Helpers == 1..MaxHelpers

(***************************************************************************)
(* Types of IDraw2d.                                                       *)
(***************************************************************************)
HAlign == {"Left", "Center", "Right"}
VAlign == {"Top", "Center", "Bottom"}
Rounding == {"None", "Nearest", "Down", "Up"}

\* RenderState::RenderState()
RenderState ==
    [m_blendState |-> [m_enable |-> TRUE,
                       m_blendSource |-> "AlphaSource",
                       m_blendDest |-> "AlphaSourceInverse"],
     m_depthState |-> [m_enable |-> FALSE]]

\* ImageOptions with its default member initializers
ImageOptions ==
    [color |-> <<1, 1, 1>>,
     pixelRounding |-> "Nearest",
     m_clamp |-> FALSE,
     m_renderState |-> RenderState]

\* TextOptions as the comments on its fields document the defaults
TextOptions ==
    [fontName |-> "default",
     effectIndex |-> 0,
     color |-> <<1, 1, 1>>,
     horizontalAlignment |-> "Left",
     verticalAlignment |-> "Top",
     dropShadowOffset |-> <<0, 0>>,
     dropShadowColor |-> <<0, 0, 0, 0>>,
     rotation |-> 0,
     depthTestEnabled |-> FALSE]

\* TextOptions has no constructor: a default-initialized TextOptions has an
\* empty fontName and indeterminate values in every other field.  These are
\* two of the values such an object can hold.
IndeterminateTextOptions ==
    {[fontName |-> "",
      effectIndex |-> 0,
      color |-> <<0, 0, 0>>,
      horizontalAlignment |-> "Left",
      verticalAlignment |-> "Top",
      dropShadowOffset |-> <<0, 0>>,
      dropShadowColor |-> <<0, 0, 0, 0>>,
      rotation |-> 0,
      depthTestEnabled |-> FALSE],
     [fontName |-> "",
      effectIndex |-> 7,
      color |-> <<9, 9, 9>>,
      horizontalAlignment |-> "Right",
      verticalAlignment |-> "Bottom",
      dropShadowOffset |-> <<9, 9>>,
      dropShadowColor |-> <<9, 9, 9, 9>>,
      rotation |-> 9,
      depthTestEnabled |-> TRUE]}

(***************************************************************************)
(* Values the callers of the model pass.                                   *)
(***************************************************************************)
AdditiveBlend ==
    [m_enable |-> TRUE, m_blendSource |-> "One", m_blendDest |-> "One"]
DepthOn == [m_enable |-> TRUE]
OtherRenderState == [m_blendState |-> AdditiveBlend, m_depthState |-> DepthOn]

ColorArgs == {<<1, 0, 0>>}
RoundingArgs == {"Down"}
BlendArgs == {AdditiveBlend}
ClampArgs == {TRUE}
DepthTestArgs == {TRUE}
DepthArgs == {DepthOn}
FontArgs == {"title"}
EffectIndexArgs == {1}
HAlignArgs == {"Right"}
VAlignArgs == {"Bottom"}
ShadowOffsetArgs == {<<1, 1>>}
ShadowColorArgs == {<<0, 0, 0, 1>>}
RotationArgs == {90}
SortKeys == {0, 1}
Texts == {<<>>, <<"H", "i">>}

\* An engine whose default option records were reconfigured by its owner.
ReconfiguredImageOptions ==
    [color |-> <<0, 0, 1>>,
     pixelRounding |-> "Up",
     m_clamp |-> TRUE,
     m_renderState |-> [m_blendState |-> [m_enable |-> FALSE,
                                          m_blendSource |-> "One",
                                          m_blendDest |-> "Zero"],
                        m_depthState |-> [m_enable |-> FALSE]]]
ReconfiguredTextOptions ==
    [TextOptions EXCEPT !.fontName = "mono",
                        !.horizontalAlignment = "Center",
                        !.rotation = 45]

VARIABLES
    engines,    \* [Engines -> engine state]: the IDraw2d objects
    pLyShine,   \* gEnv->pLyShine: NULL, or the engine GetDraw2d() returns
    helpers,    \* [Helpers -> Draw2dHelper object]
    scopes,     \* the live helpers, in construction order, each with the
                \* deferCalls argument its constructor was given
    nDraws,     \* draw calls submitted so far
    nSets,      \* helper setter calls made so far
    ret,        \* what the last call returned to its caller
    nCalls      \* calls made so far, where a specification counts them

vars == <<engines, pLyShine, helpers, scopes, nDraws, nSets, ret, nCalls>>


(***************************************************************************)
(* The engine behind IDraw2d.  An engine is a record:                      *)
(*   deferPrimitives      the current defer flag                           *)
(*   sortKey              the current sort key                             *)
(*   deferredPrimitives   the deferred queue, oldest first                 *)
(*   rasterized           what the backend has rasterized so far, in order *)
(*   defaultImageOptions, defaultTextOptions   the default option records  *)
(*   viewport             width, height and dpi scaling factor             *)
(***************************************************************************)
Viewport == [width |-> 1280, height |-> 720, dpiScalingFactor |-> 1]

\* enum { MAX_TEXT_STRING_LENGTH = 1024 }: the maximum number of characters
\* of a text string, including the null terminator.
MAX_TEXT_STRING_LENGTH == 1024

TooLong(textString) == Len(textString) + 1 > MAX_TEXT_STRING_LENGTH

\* What an engine does with a text string that is too long: one of these,
\* fixed for the engine.  It reports the violation, and then either draws
\* nothing or draws the characters that fit.
OverlongPolicies == {"reject", "truncate"}

NewEngine(defer, imageOptions, textOptions) ==
    [deferPrimitives |-> defer,
     sortKey |-> 0,
     deferredPrimitives |-> <<>>,
     rasterized |-> <<>>,
     defaultImageOptions |-> imageOptions,
     defaultTextOptions |-> textOptions,
     viewport |-> Viewport,
     overlongText |-> "reject",
     violations |-> 0]

\* The font-measurement collaborator: the size of a text in a font.  The
\* glyphs of the "default" font are pointSize wide, those of any other font
\* twice that.
MeasureText(textString, pointSize, textOptions) ==
    <<Len(textString) * (IF textOptions.fontName = "default" THEN pointSize
                                                           ELSE 2 * pointSize),
      pointSize>>

IDraw2d_GetDeferPrimitives(e) == e.deferPrimitives

IDraw2d_SetDeferPrimitives(e, deferPrimitives) ==
    [e EXCEPT !.deferPrimitives = deferPrimitives]

\* A SetSortKey that also retags what is already queued.
IDraw2d_SetSortKey_Retags(e, key) ==
    [e EXCEPT !.sortKey = key,
              !.deferredPrimitives = [i \in 1..Len(@) |-> [@[i] EXCEPT !.key = key]]]

IDraw2d_SetSortKey(e, key) == [e EXCEPT !.sortKey = key]

IDraw2d_GetDefaultImageOptions(e) == e.defaultImageOptions

IDraw2d_GetDefaultTextOptions(e) == e.defaultTextOptions

IDraw2d_GetViewportWidth(e) == e.viewport.width

IDraw2d_GetViewportHeight(e) == e.viewport.height

IDraw2d_GetViewportDpiScalingFactor(e) == e.viewport.dpiScalingFactor

\* A null textOptions means the engine's default record.
IDraw2d_GetTextSize(e, textString, pointSize, textOptions) ==
    MeasureText(textString, pointSize,
                IF textOptions = nullptr THEN e.defaultTextOptions ELSE Deref(textOptions))

\* A captured draw invocation: the operation, its parameters, the option
\* record in force (none for the operations that take no option record),
\* the sort key current at submission, and its position id in the order of
\* submission.
NoOptions == <<>>

Primitive(e, op, args, options, id) ==
    [op |-> op, args |-> args, options |-> options, key |-> e.sortKey, id |-> id]

\* Deferred mode appends the primitive to the queue and rasterizes nothing.
SubmitDeferred(e, prim) ==
    [e EXCEPT !.deferredPrimitives = Append(@, prim)]

\* Immediate mode rasterizes the primitive and leaves the queue alone.
SubmitImmediate(e, prim) ==
    [e EXCEPT !.rasterized = Append(@, prim)]

\* Every draw operation: the current defer flag decides.
DrawOrDefer(e, prim) ==
    IF e.deferPrimitives THEN SubmitDeferred(e, prim) ELSE SubmitImmediate(e, prim)

\* A flush that rasterizes the queue newest first.
IDraw2d_RenderDeferredPrimitives_Reversed(e) ==
    [e EXCEPT !.rasterized = @ \o [i \in 1..Len(e.deferredPrimitives) |->
                                     e.deferredPrimitives[Len(e.deferredPrimitives) + 1 - i]],
              !.deferredPrimitives = <<>>]

\* A flush that also drops back to Immediate mode.
IDraw2d_RenderDeferredPrimitives_ResetsMode(e) ==
    [e EXCEPT !.rasterized = @ \o e.deferredPrimitives,
              !.deferredPrimitives = <<>>,
              !.deferPrimitives = FALSE]

\* Flush: rasterize the queue in queue order, then clear it.
IDraw2d_RenderDeferredPrimitives(e) ==
    [e EXCEPT !.rasterized = @ \o e.deferredPrimitives,
              !.deferredPrimitives = <<>>]

\* A null imageOptions means the engine's default record.
IDraw2d_DrawImage(e, args, imageOptions, id) ==
    DrawOrDefer(e, Primitive(e, "DrawImage", args,
        <<IF imageOptions = nullptr THEN e.defaultImageOptions
                                      ELSE Deref(imageOptions)>>, id))

IDraw2d_DrawImageAligned(e, args, imageOptions, id) ==
    DrawOrDefer(e, Primitive(e, "DrawImageAligned", args,
        <<IF imageOptions = nullptr THEN e.defaultImageOptions
                                      ELSE Deref(imageOptions)>>, id))

\* A DrawRectOutlineTextured that draws at once whatever the defer flag says.
IDraw2d_DrawRectOutlineTextured_AlwaysImmediate(e, args, id) ==
    SubmitImmediate(e, Primitive(e, "DrawRectOutlineTextured", args, NoOptions, id))

\* DrawQuad, DrawLine and DrawLineTextured take their rounding, clamp and
\* render state as parameters; DrawRectOutlineTextured takes none.
IDraw2d_DrawQuad(e, args, id) ==
    DrawOrDefer(e, Primitive(e, "DrawQuad", args, NoOptions, id))

IDraw2d_DrawLine(e, args, id) ==
    DrawOrDefer(e, Primitive(e, "DrawLine", args, NoOptions, id))

IDraw2d_DrawLineTextured(e, args, id) ==
    DrawOrDefer(e, Primitive(e, "DrawLineTextured", args, NoOptions, id))

IDraw2d_DrawRectOutlineTextured(e, args, id) ==
    DrawOrDefer(e, Primitive(e, "DrawRectOutlineTextured", args, NoOptions, id))

\* A null textOptions means the engine's default record.
IDraw2d_DrawText(e, args, textOptions, id) ==
    LET options == <<IF textOptions = nullptr THEN e.defaultTextOptions
                                                ELSE Deref(textOptions)>>
        reported == [e EXCEPT !.violations = @ + 1]
        fitting == [args EXCEPT !.textString = SubSeq(@, 1, MAX_TEXT_STRING_LENGTH - 1)]
    IN  IF TooLong(args.textString)
        THEN IF e.overlongText = "reject"
             THEN reported
             ELSE DrawOrDefer(reported, Primitive(reported, "DrawText", fitting, options, id))
        ELSE DrawOrDefer(e, Primitive(e, "DrawText", args, options, id))

(***************************************************************************)
(* float.  The components of AZ::Vector2 are IEEE 754 single precision     *)
(* numbers: 24 significand bits, results rounded to the nearest float,     *)
(* ties to the one with an even significand.  A float is modelled inside   *)
(* a window of the format as [n, s], the number n / 2^s: s = 1 counts half *)
(* pixels (up to 2^29), s = 25 counts 2^-25 (up to 32).  The operands of   *)
(* one operation share their window.                                       *)
(***************************************************************************)
SignificandBits == 24

Float(n, s) == [n |-> n, s |-> s]

Abs(x) == IF x < 0 THEN -x ELSE x

\* The distance q * 2^k between neighbouring floats around the count x.
RECURSIVE Spacing(_, _)
Spacing(x, q) == IF Abs(x) < q * 2^SignificandBits THEN q ELSE Spacing(x, 2 * q)

\* x rounded to a multiple of q, a tie to the even multiple.
RoundToMultiple(x, q) ==
    LET lo == (x \div q) * q
        r == x - lo
    IN  IF 2 * r < q THEN lo
        ELSE IF 2 * r > q THEN lo + q
        ELSE IF (lo \div q) % 2 = 0 THEN lo ELSE lo + q

\* The float nearest to the exact count x.
Fl(x) == RoundToMultiple(x, Spacing(x, 1))

IsFloat(x) == Fl(x.n) = x.n

\* 0.5f in the window of x.
HalfOf(x) == Float(2^(x.s - 1), x.s)

\* a + b, a - b and a * 0.5f in float arithmetic.  The windows hold the
\* halves of the values that are halved (their counts are even).
FAdd(a, b) == Float(Fl(a.n + b.n), a.s)

FSub(a, b) == Float(Fl(a.n - b.n), a.s)

FMulHalf(a) == Float(Fl(a.n \div 2), a.s)

\* floor and ceil of <cmath>: exact.
floor(x) == Float((x.n \div 2^x.s) * 2^x.s, x.s)

ceil(x) == Float(-(((-x.n) \div 2^x.s) * 2^x.s), x.s)

\* A whole number of pixels, and a number of units 2^-25.
Pixels(k) == Float(2 * k, 1)

Fine(n) == Float(n, SignificandBits + 1)

(***************************************************************************)
(* The static member functions Align and RoundXY of Draw2dHelper.          *)
(***************************************************************************)
\* Align with the horizontal alignment applied on both axes.
Align_HorizontalOnBothAxes(position, size, horizontalAlignment, verticalAlignment) ==
    LET Corner(p, s) ==
            CASE horizontalAlignment = "Left" -> p
              [] horizontalAlignment = "Center" -> FSub(p, FMulHalf(s))
              [] horizontalAlignment = "Right" -> FSub(p, s)
    IN  <<Corner(position[1], size[1]), Corner(position[2], size[2])>>

\* static AZ::Vector2 Align(position, size, horizontalAlignment, verticalAlignment)
Align(position, size, horizontalAlignment, verticalAlignment) ==
    LET x == CASE horizontalAlignment = "Left" -> position[1]
               [] horizontalAlignment = "Center" -> FSub(position[1], FMulHalf(size[1]))
               [] horizontalAlignment = "Right" -> FSub(position[1], size[1])
        y == CASE verticalAlignment = "Top" -> position[2]
               [] verticalAlignment = "Center" -> FSub(position[2], FMulHalf(size[2]))
               [] verticalAlignment = "Bottom" -> FSub(position[2], size[2])
    IN  <<x, y>>

\* RoundXY with Up computed as floor(v) + 1.
RoundXY_UpAsFloorPlusOne(value, roundingType) ==
    LET One(x) == Float(2^x.s, x.s) IN
    CASE roundingType = "None" -> value
      [] roundingType = "Nearest" ->
            <<floor(FAdd(value[1], HalfOf(value[1]))), floor(FAdd(value[2], HalfOf(value[2])))>>
      [] roundingType = "Down" -> <<floor(value[1]), floor(value[2])>>
      [] roundingType = "Up" ->
            <<FAdd(floor(value[1]), One(value[1])), FAdd(floor(value[2]), One(value[2]))>>

\* template<typename T> static T RoundXY(T value, IDraw2d::Rounding roundingType)
RoundXY(value, roundingType) ==
    CASE roundingType = "None" -> value
      [] roundingType = "Nearest" ->
            <<floor(FAdd(value[1], HalfOf(value[1]))), floor(FAdd(value[2], HalfOf(value[2])))>>
      [] roundingType = "Down" -> <<floor(value[1]), floor(value[2])>>
      [] roundingType = "Up" -> <<ceil(value[1]), ceil(value[2])>>

\* The coordinates and extents Align is called with: whole pixels, small
\* ones and ones beyond 2^24, where the floats are 2 apart.
AlignCoordinates == {Pixels(k) : k \in {0, 50, 100, 16777218}}

AlignExtents == {Pixels(k) : k \in {0, 2, 10, 20}}

\* The coordinates RoundXY is called with: whole numbers, ties, values next
\* to a tie, of both signs, and values from 2^23 on, where the floats are
\* whole numbers.
RoundCoordinates ==
    {Fine(n * 2^23) : n \in {-6, -3, -2, 0, 1, 2, 3}}
        \cup {Fine(2^24 - 1), Fine(1 - 2^24)}
        \cup {Pixels(k) : k \in {8388609, 16777216, -8388609}}
        \cup {Float(16777215, 1)}

Call_Align(position, size, horizontalAlignment, verticalAlignment) ==
    /\ ret' = <<"Align", Align(position, size, horizontalAlignment, verticalAlignment)>>
    /\ UNCHANGED <<engines, pLyShine, helpers, scopes, nDraws, nSets>>

Call_RoundXY(value, roundingType) ==
    /\ ret' = <<"RoundXY", RoundXY(value, roundingType)>>
    /\ UNCHANGED <<engines, pLyShine, helpers, scopes, nDraws, nSets>>

(***************************************************************************)
(* Draw2dHelper.  A helper object holds m_imageOptions, m_textOptions,     *)
(* m_draw2d and m_previousDeferCalls; a slot that holds no object is       *)
(* NoHelper.                                                               *)
(***************************************************************************)
NoHelper ==
    [alive |-> FALSE,
     m_imageOptions |-> ImageOptions,
     m_textOptions |-> TextOptions,
     m_draw2d |-> NULL,
     m_previousDeferCalls |-> FALSE]

Alive(h) == helpers[h].alive

Bound(h) == helpers[h].alive /\ helpers[h].m_draw2d # NULL

\* The first free slot: where the next helper is constructed.
FreeSlot == CHOOSE h \in Helpers : ~Alive(h) /\ \A g \in Helpers : g < h => Alive(g)

\* static IDraw2d* GetDefaultDraw2d()
GetDefaultDraw2d == IF pLyShine # NULL THEN pLyShine ELSE NULL

\* The engine InitCommon resolves for its draw2d argument.
ResolveDraw2d(draw2d) == IF draw2d = NULL THEN GetDefaultDraw2d ELSE draw2d

\* The members of a helper before InitCommon runs: m_imageOptions has its
\* default member initializers, m_textOptions and m_previousDeferCalls are
\* default-initialized and hold indeterminate values.
UninitializedHelpers ==
    {[alive |-> TRUE,
      m_imageOptions |-> ImageOptions,
      m_textOptions |-> t,
      m_draw2d |-> NULL,
      m_previousDeferCalls |-> b] : t \in IndeterminateTextOptions, b \in BOOLEAN}

\* InitCommon without the copy of the engine's default text options.
InitCommon_Helper_OwnTextOptions(fresh, m_draw2d, e, deferCalls) ==
    IF m_draw2d # NULL
    THEN [fresh EXCEPT !.m_draw2d = m_draw2d,
                       !.m_previousDeferCalls = IDraw2d_GetDeferPrimitives(e),
                       !.m_imageOptions = IDraw2d_GetDefaultImageOptions(e)]
    ELSE [fresh EXCEPT !.m_draw2d = NULL]

\* InitCommon with the local records left at the built-in defaults.
InitCommon_Helper_BuiltInDefaults(fresh, m_draw2d, e, deferCalls) ==
    IF m_draw2d # NULL
    THEN [fresh EXCEPT !.m_draw2d = m_draw2d,
                       !.m_previousDeferCalls = IDraw2d_GetDeferPrimitives(e),
                       !.m_imageOptions = ImageOptions,
                       !.m_textOptions = TextOptions]
    ELSE [fresh EXCEPT !.m_draw2d = NULL]

\* InitCommon with the defer mode captured after it was set.
InitCommon_Helper_CaptureAfterSet(fresh, m_draw2d, e, deferCalls) ==
    IF m_draw2d # NULL
    THEN [fresh EXCEPT !.m_draw2d = m_draw2d,
                       !.m_previousDeferCalls = deferCalls,
                       !.m_imageOptions = IDraw2d_GetDefaultImageOptions(e),
                       !.m_textOptions = IDraw2d_GetDefaultTextOptions(e)]
    ELSE [fresh EXCEPT !.m_draw2d = NULL]

\* What InitCommon makes of the object `fresh`, for the resolved engine
\* m_draw2d (or NULL) whose state is e.
InitCommon_Helper(fresh, m_draw2d, e, deferCalls) ==
    IF m_draw2d # NULL
    THEN [fresh EXCEPT !.m_draw2d = m_draw2d,
                       !.m_previousDeferCalls = IDraw2d_GetDeferPrimitives(e),
                       !.m_imageOptions = IDraw2d_GetDefaultImageOptions(e),
                       !.m_textOptions = IDraw2d_GetDefaultTextOptions(e)]
    ELSE [fresh EXCEPT !.m_draw2d = NULL]

\* What InitCommon makes of the resolved engine's state e.
\* A constructor that starts its scope with an empty queue.
InitCommon_Engine_ClearsQueue(e, deferCalls) ==
    [IDraw2d_SetDeferPrimitives(e, deferCalls) EXCEPT !.deferredPrimitives = <<>>]

\* A constructor that leaves the engine's defer mode as it finds it.
InitCommon_Engine_KeepsMode(e, deferCalls) == e

\* A constructor that only ever switches deferring on: deferCalls = false
\* leaves the mode alone.
InitCommon_Engine_OnlyEnables(e, deferCalls) ==
    IF deferCalls THEN IDraw2d_SetDeferPrimitives(e, TRUE) ELSE e

InitCommon_Engine(e, deferCalls) == IDraw2d_SetDeferPrimitives(e, deferCalls)

\* void InitCommon(IDraw2d* draw2d, bool deferCalls), on the new helper h.
\* The caller's frame records the deferCalls it passed and the defer mode
\* of every engine as it was before the constructor ran.
InitCommon(h, draw2d, deferCalls) ==
    LET m_draw2d == ResolveDraw2d(draw2d) IN
    /\ \E fresh \in UninitializedHelpers :
         helpers' = [helpers EXCEPT ![h] =
            InitCommon_Helper(fresh, m_draw2d,
                              IF m_draw2d # NULL THEN engines[m_draw2d] ELSE engines["game"],
                              deferCalls)]
    /\ engines' = IF m_draw2d # NULL
                  THEN [engines EXCEPT ![m_draw2d] = InitCommon_Engine(@, deferCalls)]
                  ELSE engines
    /\ scopes' = Append(scopes,
                        [h |-> h, deferCalls |-> deferCalls,
                         before |-> [e \in Engines |-> engines[e].deferPrimitives]])
    /\ ret' = void
    /\ UNCHANGED <<pLyShine, nDraws, nSets>>

\* Draw2dHelper(bool deferCalls = false)
Draw2dHelper_Default(deferCalls) ==
    /\ \E h \in Helpers : ~Alive(h)
    /\ InitCommon(FreeSlot, NULL, deferCalls)

\* Draw2dHelper(IDraw2d* draw2d, bool deferCalls = false)
Draw2dHelper_Explicit(draw2d, deferCalls) ==
    /\ \E h \in Helpers : ~Alive(h)
    /\ InitCommon(FreeSlot, draw2d, deferCalls)

\* The frames of scopes without the one of helper h.
RemoveScope(h) == SelectSeq(scopes, LAMBDA f : f.h # h)

\* A destructor that flushes the queue once it has restored the mode.
Destructor_Engine_Flushes(hp, e) ==
    IDraw2d_RenderDeferredPrimitives(IDraw2d_SetDeferPrimitives(e, hp.m_previousDeferCalls))

\* A destructor that always drops the engine back to Immediate mode.
Destructor_Engine_RestoresImmediate(hp, e) == IDraw2d_SetDeferPrimitives(e, FALSE)

\* What ~Draw2dHelper() makes of the state e of the helper's engine.
Destructor_Engine(hp, e) == IDraw2d_SetDeferPrimitives(e, hp.m_previousDeferCalls)

\* A destructor without the null check: a helper that has no engine
\* restores its m_previousDeferCalls on the game's engine.
Destructor_Unguarded(h) ==
    /\ Alive(h)
    /\ engines' = IF helpers[h].m_draw2d # NULL
                  THEN [engines EXCEPT ![helpers[h].m_draw2d] =
                           Destructor_Engine(helpers[h], @)]
                  ELSE [engines EXCEPT !["game"] = Destructor_Engine(helpers[h], @)]
    /\ helpers' = [helpers EXCEPT ![h] = NoHelper]
    /\ scopes' = RemoveScope(h)
    /\ ret' = void
    /\ UNCHANGED <<pLyShine, nDraws, nSets>>

\* A destructor that restores on the engine the locator names when it runs.
Destructor_OnLocator(h) ==
    /\ Alive(h)
    /\ engines' = IF GetDefaultDraw2d # NULL
                  THEN [engines EXCEPT ![GetDefaultDraw2d] =
                           Destructor_Engine(helpers[h], @)]
                  ELSE engines
    /\ helpers' = [helpers EXCEPT ![h] = NoHelper]
    /\ scopes' = RemoveScope(h)
    /\ ret' = void
    /\ UNCHANGED <<pLyShine, nDraws, nSets>>

\* ~Draw2dHelper(), on helper h
Destructor(h) ==
    /\ Alive(h)
    /\ engines' = IF helpers[h].m_draw2d # NULL
                  THEN [engines EXCEPT ![helpers[h].m_draw2d] =
                           Destructor_Engine(helpers[h], @)]
                  ELSE engines
    /\ helpers' = [helpers EXCEPT ![h] = NoHelper]
    /\ scopes' = RemoveScope(h)
    /\ ret' = void
    /\ UNCHANGED <<pLyShine, nDraws, nSets>>

(***************************************************************************)
(* The parameters callers pass to the draw operations.  DrawQuad, DrawLine *)
(* and DrawLineTextured either leave pixelRounding, clamp and renderState  *)
(* to their default arguments or pass values of their own.                 *)
(***************************************************************************)
DrawImageArgs ==
    {[position |-> <<100, 50>>, size |-> <<20, 10>>, opacity |-> 1, rotation |-> 0]}

DrawImageAlignedArgs ==
    {[position |-> <<100, 50>>, size |-> <<20, 10>>,
      horizontalAlignment |-> "Center", verticalAlignment |-> "Bottom",
      opacity |-> 1, rotation |-> 0]}

DrawQuadArgs ==
    {[pixelRounding |-> "Down", clamp |-> TRUE, renderState |-> OtherRenderState]}

DrawLineArgs ==
    {[start |-> <<0, 0>>, end |-> <<8, 8>>, color |-> <<1, 1, 1, 1>>,
      pixelRounding |-> "Nearest", renderState |-> RenderState],
     [start |-> <<0, 0>>, end |-> <<8, 8>>, color |-> <<1, 1, 1, 1>>,
      pixelRounding |-> "Down", renderState |-> OtherRenderState]}

DrawLineTexturedArgs ==
    {[pixelRounding |-> "Nearest", renderState |-> RenderState]}

DrawRectOutlineTexturedArgs ==
    {[rightVec |-> <<1, 0>>, downVec |-> <<0, 1>>, color |-> <<1, 1, 1, 1>>,
      lineThickness |-> 0]}

DrawTextArgs ==
    {[textString |-> <<"H", "i">>, position |-> <<100, 50>>, pointSize |-> 12,
      opacity |-> 1]}

PointSizes == {12}

(***************************************************************************)
(* The forwarding methods of Draw2dHelper.  Each one is guarded by         *)
(* if (m_draw2d) and forwards to the engine the helper resolved.           *)
(***************************************************************************)
\* The engine state helper h forwards to.
EngineOf(h) == engines[helpers[h].m_draw2d]

\* One draw call through helper h: `forwarded` is the engine's state after
\* the forwarded call, taken only when m_draw2d is not null.
Forward(h, forwarded) ==
    /\ Alive(h)
    /\ nDraws < MaxDraws
    /\ engines' = IF helpers[h].m_draw2d # NULL
                  THEN [engines EXCEPT ![helpers[h].m_draw2d] = forwarded]
                  ELSE engines
    /\ nDraws' = nDraws + 1
    /\ ret' = void
    /\ UNCHANGED <<pLyShine, helpers, scopes, nSets>>

\* A DrawImage that leaves the options to the engine's defaults.
DrawImage_DefaultOptions(h, args) ==
    Forward(h, IDraw2d_DrawImage(EngineOf(h), args, nullptr, nDraws + 1))

DrawImage(h, args) ==
    Forward(h, IDraw2d_DrawImage(EngineOf(h), args,
                                 AddressOf(helpers[h].m_imageOptions), nDraws + 1))

\* DrawImageAligned aligning the quad itself and drawing it with DrawImage,
\* without a pivot.
DrawImageAligned_AsDrawImage(h, args) ==
    Forward(h, IDraw2d_DrawImage(EngineOf(h),
                   [position |-> Align(args.position, args.size,
                                       args.horizontalAlignment, args.verticalAlignment),
                    size |-> args.size,
                    opacity |-> args.opacity,
                    rotation |-> args.rotation,
                    pivotPoint |-> nullptr,
                    minMaxTexCoords |-> args.minMaxTexCoords],
                   AddressOf(helpers[h].m_imageOptions), nDraws + 1))

DrawImageAligned(h, args) ==
    Forward(h, IDraw2d_DrawImageAligned(EngineOf(h), args,
                                        AddressOf(helpers[h].m_imageOptions), nDraws + 1))

DrawQuad(h, args) ==
    Forward(h, IDraw2d_DrawQuad(EngineOf(h), args, nDraws + 1))

DrawLine(h, args) ==
    Forward(h, IDraw2d_DrawLine(EngineOf(h), args, nDraws + 1))

DrawLineTextured(h, args) ==
    Forward(h, IDraw2d_DrawLineTextured(EngineOf(h), args, nDraws + 1))

DrawRectOutlineTextured(h, args) ==
    Forward(h, IDraw2d_DrawRectOutlineTextured(EngineOf(h), args, nDraws + 1))

\* DrawText dropping a text that is too long instead of forwarding it.
DrawText_DropsOverlong(h, args) ==
    Forward(h, IF TooLong(args.textString)
               THEN EngineOf(h)
               ELSE IDraw2d_DrawText(EngineOf(h), args,
                                     AddressOf(helpers[h].m_textOptions), nDraws + 1))

DrawText(h, args) ==
    Forward(h, IDraw2d_DrawText(EngineOf(h), args,
                                AddressOf(helpers[h].m_textOptions), nDraws + 1))

\* AZ::Vector2 GetTextSize(const char* textString, float pointSize)
\* GetTextSize measuring the text by drawing it.
GetTextSize_DrawsText(h, textString, pointSize) ==
    /\ Alive(h)
    /\ ret' = IF helpers[h].m_draw2d # NULL
              THEN <<"GetTextSize",
                     IDraw2d_GetTextSize(EngineOf(h), textString, pointSize,
                                         AddressOf(helpers[h].m_textOptions))>>
              ELSE <<"GetTextSize", <<0, 0>>>>
    /\ engines' = IF helpers[h].m_draw2d # NULL
                  THEN [engines EXCEPT ![helpers[h].m_draw2d] =
                          IDraw2d_DrawText(EngineOf(h),
                                           [textString |-> textString,
                                            position |-> <<0, 0>>,
                                            pointSize |-> pointSize,
                                            opacity |-> 0],
                                           AddressOf(helpers[h].m_textOptions),
                                           nDraws + 1)]
                  ELSE engines
    /\ UNCHANGED <<pLyShine, helpers, scopes, nDraws, nSets>>

GetTextSize(h, textString, pointSize) ==
    /\ Alive(h)
    /\ ret' = IF helpers[h].m_draw2d # NULL
              THEN <<"GetTextSize",
                     IDraw2d_GetTextSize(EngineOf(h), textString, pointSize,
                                         AddressOf(helpers[h].m_textOptions))>>
              ELSE <<"GetTextSize", <<0, 0>>>>
    /\ UNCHANGED <<engines, pLyShine, helpers, scopes, nDraws, nSets>>

(***************************************************************************)
(* The setters of Draw2dHelper: each assigns members of m_imageOptions or  *)
(* m_textOptions of the helper it is called on.                            *)
(***************************************************************************)
Set(h, object) ==
    /\ Alive(h)
    /\ nSets < MaxSets
    /\ helpers' = [helpers EXCEPT ![h] = object]
    /\ nSets' = nSets + 1
    /\ ret' = void
    /\ UNCHANGED <<engines, pLyShine, scopes, nDraws>>

SetImageBlendMode(h, blendState) ==
    Set(h, [helpers[h] EXCEPT !.m_imageOptions.m_renderState.m_blendState = blendState])

SetImageColor(h, color) ==
    Set(h, [helpers[h] EXCEPT !.m_imageOptions.color = color])

SetImagePixelRounding(h, round) ==
    Set(h, [helpers[h] EXCEPT !.m_imageOptions.pixelRounding = round])

\* A SetImageDepthState that assigns a whole render state.
SetImageDepthState_WholeRenderState(h, depthState) ==
    Set(h, [helpers[h] EXCEPT !.m_imageOptions.m_renderState =
                                  [RenderState EXCEPT !.m_depthState = depthState]])

SetImageDepthState(h, depthState) ==
    Set(h, [helpers[h] EXCEPT !.m_imageOptions.m_renderState.m_depthState = depthState])

SetImageClamp(h, clamp) ==
    Set(h, [helpers[h] EXCEPT !.m_imageOptions.m_clamp = clamp])

SetTextFont(h, fontName) ==
    Set(h, [helpers[h] EXCEPT !.m_textOptions.fontName = fontName])

SetTextEffectIndex(h, effectIndex) ==
    Set(h, [helpers[h] EXCEPT !.m_textOptions.effectIndex = effectIndex])

SetTextColor(h, color) ==
    Set(h, [helpers[h] EXCEPT !.m_textOptions.color = color])

SetTextAlignment(h, horizontalAlignment, verticalAlignment) ==
    Set(h, [helpers[h] EXCEPT !.m_textOptions.horizontalAlignment = horizontalAlignment,
                              !.m_textOptions.verticalAlignment = verticalAlignment])

SetTextDropShadow(h, offset, color) ==
    Set(h, [helpers[h] EXCEPT !.m_textOptions.dropShadowOffset = offset,
                              !.m_textOptions.dropShadowColor = color])

SetTextRotation(h, rotation) ==
    Set(h, [helpers[h] EXCEPT !.m_textOptions.rotation = rotation])

SetTextDepthTestEnabled(h, enabled) ==
    Set(h, [helpers[h] EXCEPT !.m_textOptions.depthTestEnabled = enabled])

(***************************************************************************)
(* Calls made on an engine directly, without a helper.                     *)
(***************************************************************************)
\* Option records a direct caller passes: none, or one of its own.
CallerImageOptions == {nullptr, AddressOf([ImageOptions EXCEPT !.color = <<0, 1, 0>>])}
CallerTextOptions == {nullptr, AddressOf([TextOptions EXCEPT !.rotation = 90])}

\* One draw call on engine e, which leaves it in state `drawn`.
Direct(e, drawn) ==
    /\ nDraws < MaxDraws
    /\ engines' = [engines EXCEPT ![e] = drawn]
    /\ nDraws' = nDraws + 1
    /\ ret' = void
    /\ UNCHANGED <<pLyShine, helpers, scopes, nSets>>

Call_DrawImage(e, args, imageOptions) ==
    Direct(e, IDraw2d_DrawImage(engines[e], args, imageOptions, nDraws + 1))

Call_DrawImageAligned(e, args, imageOptions) ==
    Direct(e, IDraw2d_DrawImageAligned(engines[e], args, imageOptions, nDraws + 1))

Call_DrawQuad(e, args) ==
    Direct(e, IDraw2d_DrawQuad(engines[e], args, nDraws + 1))

Call_DrawLine(e, args) ==
    Direct(e, IDraw2d_DrawLine(engines[e], args, nDraws + 1))

Call_DrawLineTextured(e, args) ==
    Direct(e, IDraw2d_DrawLineTextured(engines[e], args, nDraws + 1))

Call_DrawRectOutlineTextured(e, args) ==
    Direct(e, IDraw2d_DrawRectOutlineTextured(engines[e], args, nDraws + 1))

Call_DrawText(e, args, textOptions) ==
    Direct(e, IDraw2d_DrawText(engines[e], args, textOptions, nDraws + 1))

Call_RenderDeferredPrimitives(e) ==
    /\ engines' = [engines EXCEPT ![e] = IDraw2d_RenderDeferredPrimitives(@)]
    /\ ret' = void
    /\ UNCHANGED <<pLyShine, helpers, scopes, nDraws, nSets>>

Call_SetDeferPrimitives(e, deferPrimitives) ==
    /\ engines' = [engines EXCEPT ![e] = IDraw2d_SetDeferPrimitives(@, deferPrimitives)]
    /\ ret' = void
    /\ UNCHANGED <<pLyShine, helpers, scopes, nDraws, nSets>>

Call_SetSortKey(e, key) ==
    /\ engines' = [engines EXCEPT ![e] = IDraw2d_SetSortKey(@, key)]
    /\ ret' = void
    /\ UNCHANGED <<pLyShine, helpers, scopes, nDraws, nSets>>

\* A query on engine e, which returns `value`.
Query(name, value) ==
    /\ ret' = <<name, value>>
    /\ UNCHANGED <<engines, pLyShine, helpers, scopes, nDraws, nSets>>

Call_GetDeferPrimitives(e) ==
    Query("GetDeferPrimitives", IDraw2d_GetDeferPrimitives(engines[e]))

Call_GetTextSize(e, textString, pointSize, textOptions) ==
    Query("GetTextSize", IDraw2d_GetTextSize(engines[e], textString, pointSize, textOptions))

Call_GetViewportWidth(e) ==
    Query("GetViewportWidth", IDraw2d_GetViewportWidth(engines[e]))

Call_GetViewportHeight(e) ==
    Query("GetViewportHeight", IDraw2d_GetViewportHeight(engines[e]))

Call_GetViewportDpiScalingFactor(e) ==
    Query("GetViewportDpiScalingFactor", IDraw2d_GetViewportDpiScalingFactor(engines[e]))

Call_GetDefaultImageOptions(e) ==
    Query("GetDefaultImageOptions", IDraw2d_GetDefaultImageOptions(engines[e]))

Call_GetDefaultTextOptions(e) ==
    Query("GetDefaultTextOptions", IDraw2d_GetDefaultTextOptions(engines[e]))

(***************************************************************************)
(* Initial states.  The game's engine starts in Immediate mode or, where a *)
(* specification says so, in either mode; its default option records are   *)
(* the documented ones or reconfigured ones.                               *)
(***************************************************************************)
DefaultRecords ==
    {[image |-> ImageOptions, text |-> TextOptions],
     [image |-> ReconfiguredImageOptions, text |-> ReconfiguredTextOptions]}

InitWith(modes, locators, defaults) ==
    /\ \E d \in modes, o \in defaults :
         engines = [e \in Engines |->
                      IF e = "game" THEN NewEngine(d, o.image, o.text)
                                    ELSE NewEngine(FALSE, ImageOptions, TextOptions)]
    /\ pLyShine \in locators
    /\ helpers = [h \in Helpers |-> NoHelper]
    /\ scopes = <<>>
    /\ nDraws = 0
    /\ nSets = 0
    /\ ret = void
    /\ nCalls = 0

(***************************************************************************)
(* The steps of the program, grouped.                                      *)
(***************************************************************************)
\* A draw call on engine e.
EngineDraw(e) ==
    \/ \E a \in DrawImageArgs, o \in CallerImageOptions : Call_DrawImage(e, a, o)
    \/ \E a \in DrawImageAlignedArgs : Call_DrawImageAligned(e, a, nullptr)
    \/ \E a \in DrawQuadArgs : Call_DrawQuad(e, a)
    \/ \E a \in DrawLineArgs : Call_DrawLine(e, a)
    \/ \E a \in DrawLineTexturedArgs : Call_DrawLineTextured(e, a)
    \/ \E a \in DrawRectOutlineTexturedArgs : Call_DrawRectOutlineTextured(e, a)
    \/ \E a \in DrawTextArgs, o \in CallerTextOptions : Call_DrawText(e, a, o)

\* A query on engine e.
EngineQuery(e) ==
    \/ Call_GetDeferPrimitives(e)
    \/ \E t \in Texts \ {<<>>}, p \in PointSizes, o \in CallerTextOptions :
          Call_GetTextSize(e, t, p, o)
    \/ Call_GetViewportWidth(e)
    \/ Call_GetViewportHeight(e)
    \/ Call_GetViewportDpiScalingFactor(e)
    \/ Call_GetDefaultImageOptions(e)
    \/ Call_GetDefaultTextOptions(e)

\* A draw call through helper h.
HelperDraw(h) ==
    \/ \E a \in DrawImageArgs : DrawImage(h, a)
    \/ \E a \in DrawImageAlignedArgs : DrawImageAligned(h, a)
    \/ \E a \in DrawQuadArgs : DrawQuad(h, a)
    \/ \E a \in DrawLineArgs : DrawLine(h, a)
    \/ \E a \in DrawLineTexturedArgs : DrawLineTextured(h, a)
    \/ \E a \in DrawRectOutlineTexturedArgs : DrawRectOutlineTextured(h, a)
    \/ \E a \in DrawTextArgs : DrawText(h, a)

\* A setter call on helper h.
HelperSet(h) ==
    \/ \E b \in BlendArgs : SetImageBlendMode(h, b)
    \/ \E c \in ColorArgs : SetImageColor(h, c)
    \/ \E r \in RoundingArgs : SetImagePixelRounding(h, r)
    \/ \E d \in DepthArgs : SetImageDepthState(h, d)
    \/ \E c \in ClampArgs : SetImageClamp(h, c)
    \/ \E f \in FontArgs : SetTextFont(h, f)
    \/ \E i \in EffectIndexArgs : SetTextEffectIndex(h, i)
    \/ \E c \in ColorArgs : SetTextColor(h, c)
    \/ \E ha \in HAlignArgs, va \in VAlignArgs : SetTextAlignment(h, ha, va)
    \/ \E o \in ShadowOffsetArgs, c \in ShadowColorArgs : SetTextDropShadow(h, o, c)
    \/ \E r \in RotationArgs : SetTextRotation(h, r)
    \/ \E d \in DepthTestArgs : SetTextDepthTestEnabled(h, d)

\* One more call, within the budget of Spec.
Counted == nCalls < MaxCalls /\ nCalls' = nCalls + 1

(***************************************************************************)
(* SpecEngine: one engine driven directly, in both modes.                  *)
(***************************************************************************)
InitEngine == InitWith({FALSE}, {"game"}, DefaultRecords)

NextEngine ==
    \/ EngineDraw("game") /\ UNCHANGED nCalls
    \/ Call_RenderDeferredPrimitives("game") /\ UNCHANGED nCalls
    \/ (\E d \in BOOLEAN : Call_SetDeferPrimitives("game", d)) /\ UNCHANGED nCalls

SpecEngine == InitEngine /\ [][NextEngine]_vars

(***************************************************************************)
(* SpecNest: helper scopes opened and closed in LIFO order on the game's   *)
(* engine, with nothing else writing the defer flag.                       *)
(***************************************************************************)
InitNest == InitWith(BOOLEAN, {NULL, "game"}, DefaultRecords)

\* The helper whose scope is the innermost one.
Top == scopes[Len(scopes)].h

NextNest ==
    \/ (\E d \in BOOLEAN : Draw2dHelper_Default(d)) /\ UNCHANGED nCalls
    \/ (\E e \in {NULL, "game"}, d \in BOOLEAN : Draw2dHelper_Explicit(e, d))
          /\ UNCHANGED nCalls
    \/ (scopes # <<>> /\ Destructor(Top)) /\ UNCHANGED nCalls

SpecNest == InitNest /\ [][NextNest]_vars

(***************************************************************************)
(* SpecDeferScope: one deferring helper at a time over the game's engine,  *)
(* which starts in Immediate mode with an empty queue.                     *)
(***************************************************************************)
InitDeferScope == InitWith({FALSE}, {"game"}, DefaultRecords)

NextDeferScope ==
    \/ (scopes = <<>> /\ Draw2dHelper_Default(TRUE)) /\ UNCHANGED nCalls
    \/ (scopes = <<>> /\ Draw2dHelper_Explicit("game", TRUE)) /\ UNCHANGED nCalls
    \/ (scopes # <<>> /\ HelperDraw(Top)) /\ UNCHANGED nCalls
    \/ (scopes # <<>> /\ Destructor(Top)) /\ UNCHANGED nCalls
    \/ Call_RenderDeferredPrimitives("game") /\ UNCHANGED nCalls

SpecDeferScope == InitDeferScope /\ [][NextDeferScope]_vars

(***************************************************************************)
(* Spec: every operation of the engine and of the helpers, in any order,   *)
(* for MaxCalls calls, from an engine in Immediate mode.                   *)
(***************************************************************************)
Init == InitWith({FALSE}, {NULL, "game"}, DefaultRecords)

Next ==
    \/ Counted /\ (\E d \in BOOLEAN : Draw2dHelper_Default(d))
    \/ Counted /\ (\E e \in {NULL, "game"}, d \in BOOLEAN : Draw2dHelper_Explicit(e, d))
    \/ Counted /\ (\E h \in Helpers : Destructor(h))
    \/ Counted /\ (\E h \in Helpers : HelperDraw(h))
    \/ Counted /\ (\E h \in Helpers : HelperSet(h))
    \/ Counted /\ (\E h \in Helpers, t \in Texts, p \in PointSizes : GetTextSize(h, t, p))
    \/ Counted /\ EngineDraw("game")
    \/ Counted /\ Call_RenderDeferredPrimitives("game")
    \/ Counted /\ (\E d \in BOOLEAN : Call_SetDeferPrimitives("game", d))
    \/ Counted /\ (\E k \in SortKeys : Call_SetSortKey("game", k))
    \/ Counted /\ EngineQuery("game")

Spec == Init /\ [][Next]_vars

(***************************************************************************)
(* SpecSortKey: one engine in Deferred mode, driven directly: draw calls   *)
(* with the options left to the engine's defaults, changes of the sort     *)
(* key, and flushes.                                                       *)
(***************************************************************************)
InitSortKey == InitWith({TRUE}, {"game"}, {[image |-> ImageOptions, text |-> TextOptions]})

\* A draw call on engine e with every optional record left out.
PlainDraw(e) ==
    \/ \E a \in DrawImageArgs : Call_DrawImage(e, a, nullptr)
    \/ \E a \in DrawImageAlignedArgs : Call_DrawImageAligned(e, a, nullptr)
    \/ \E a \in DrawQuadArgs : Call_DrawQuad(e, a)
    \/ \E a \in DrawLineArgs : Call_DrawLine(e, a)
    \/ \E a \in DrawLineTexturedArgs : Call_DrawLineTextured(e, a)
    \/ \E a \in DrawRectOutlineTexturedArgs : Call_DrawRectOutlineTextured(e, a)
    \/ \E a \in DrawTextArgs : Call_DrawText(e, a, nullptr)

NextSortKey ==
    \/ PlainDraw("game") /\ UNCHANGED nCalls
    \/ (\E k \in SortKeys : Call_SetSortKey("game", k)) /\ UNCHANGED nCalls
    \/ Call_RenderDeferredPrimitives("game") /\ UNCHANGED nCalls

SpecSortKey == InitSortKey /\ [][NextSortKey]_vars

(***************************************************************************)
(* SpecStatic: the static member functions called with any of the values.  *)
(* They read and write nothing but their arguments, so a behaviour makes   *)
(* one call.                                                               *)
(***************************************************************************)
InitStatic == InitWith({FALSE}, {"game"}, {[image |-> ImageOptions, text |-> TextOptions]})

NextStatic ==
    \/ (\E px, py \in AlignCoordinates, sx, sy \in AlignExtents, ha \in HAlign, va \in VAlign :
           Call_Align(<<px, py>>, <<sx, sy>>, ha, va)) /\ nCalls = 0 /\ nCalls' = 1
    \/ (\E x, y \in RoundCoordinates, r \in Rounding : Call_RoundXY(<<x, y>>, r))
          /\ nCalls = 0 /\ nCalls' = 1

SpecStatic == InitStatic /\ [][NextStatic]_vars

(***************************************************************************)
(* SpecText: text of any length drawn on the engine and through a helper,  *)
(* in both modes, on an engine of either policy.                           *)
(***************************************************************************)
\* The longest text that fits, and the shortest that does not.
LongestText == [i \in 1..(MAX_TEXT_STRING_LENGTH - 1) |-> "x"]

OverlongText == [i \in 1..MAX_TEXT_STRING_LENGTH |-> "x"]

TextArgs ==
    {[textString |-> t, position |-> <<100, 50>>, pointSize |-> 12, opacity |-> 1] :
        t \in {LongestText, OverlongText}}

InitText ==
    /\ \E d \in BOOLEAN, p \in OverlongPolicies :
         engines = [e \in Engines |->
                      [NewEngine(IF e = "game" THEN d ELSE FALSE, ImageOptions, TextOptions)
                          EXCEPT !.overlongText = p]]
    /\ pLyShine = "game"
    /\ helpers = [h \in Helpers |-> NoHelper]
    /\ scopes = <<>>
    /\ nDraws = 0
    /\ nSets = 0
    /\ ret = void
    /\ nCalls = 0

NextText ==
    \/ (\E a \in TextArgs : Call_DrawText("game", a, nullptr)) /\ UNCHANGED nCalls
    \/ (scopes = <<>> /\ \E d \in BOOLEAN : Draw2dHelper_Explicit("game", d))
          /\ UNCHANGED nCalls
    \/ (\E h \in Helpers, a \in TextArgs : DrawText(h, a)) /\ UNCHANGED nCalls
    \/ (\E k \in SortKeys : Call_SetSortKey("game", k)) /\ UNCHANGED nCalls

SpecText == InitText /\ [][NextText]_vars

(***************************************************************************)
(* SpecAligned: images drawn aligned, on the engine and through a helper,  *)
(* and images drawn by their top left corner with a pivot.                 *)
(***************************************************************************)
\* The quad an image primitive rasterizes: DrawImage places the top left
\* corner at the position and rotates about the pivot, or about the corner
\* without one; DrawImageAligned places the corner by the alignment and
\* rotates about the position.
Quad(prim) ==
    LET a == prim.args
        drawn == [size |-> a.size, opacity |-> a.opacity, rotation |-> a.rotation,
                  minMaxTexCoords |-> a.minMaxTexCoords, options |-> prim.options,
                  key |-> prim.key, id |-> prim.id]
    IN  IF prim.op = "DrawImageAligned"
        THEN [topLeft |-> Align(a.position, a.size,
                                a.horizontalAlignment, a.verticalAlignment),
              pivot |-> a.position,
              drawn |-> drawn]
        ELSE [topLeft |-> a.position,
              pivot |-> IF a.pivotPoint = nullptr THEN a.position ELSE Deref(a.pivotPoint),
              drawn |-> drawn]

\* What an engine has rasterized and has queued, as quads.
Quads(e) ==
    [rasterized |-> [i \in 1..Len(e.rasterized) |-> Quad(e.rasterized[i])],
     deferredPrimitives |-> [i \in 1..Len(e.deferredPrimitives) |->
                                Quad(e.deferredPrimitives[i])],
     deferPrimitives |-> e.deferPrimitives,
     sortKey |-> e.sortKey]

AlignedImageArgs ==
    {[position |-> <<Pixels(100), Pixels(50)>>, size |-> <<Pixels(20), Pixels(10)>>,
      horizontalAlignment |-> ha, verticalAlignment |-> va,
      opacity |-> 1, rotation |-> 90, minMaxTexCoords |-> nullptr] :
        ha \in HAlign, va \in VAlign}

\* The arguments of the DrawImage call that draws the quad of aligned
\* arguments a: the corner from Align, the pivot at the position.
AsDrawImage(a) ==
    [position |-> Align(a.position, a.size, a.horizontalAlignment, a.verticalAlignment),
     size |-> a.size,
     opacity |-> a.opacity,
     rotation |-> a.rotation,
     pivotPoint |-> AddressOf(a.position),
     minMaxTexCoords |-> a.minMaxTexCoords]

PivotedImageArgs ==
    {AsDrawImage(a) : a \in {b \in AlignedImageArgs : b.horizontalAlignment = "Right"
                                                     /\ b.verticalAlignment = "Center"}}

InitAligned == InitWith(BOOLEAN, {"game"}, {[image |-> ImageOptions, text |-> TextOptions]})

NextAligned ==
    \/ Counted /\ (\E a \in AlignedImageArgs : Call_DrawImageAligned("game", a, nullptr))
    \/ Counted /\ (\E a \in PivotedImageArgs, o \in CallerImageOptions :
                      Call_DrawImage("game", a, o))
    \/ Counted /\ (scopes = <<>> /\ \E d \in BOOLEAN : Draw2dHelper_Explicit("game", d))
    \/ Counted /\ (\E h \in Helpers, a \in AlignedImageArgs : DrawImageAligned(h, a))
    \/ Counted /\ (\E h \in Helpers, r \in RoundingArgs : SetImagePixelRounding(h, r))

SpecAligned == InitAligned /\ [][NextAligned]_vars

(***************************************************************************)
(* SpecRestore: helpers constructed on the game's engine and destroyed in  *)
(* any order, with SetDeferPrimitives called on the engine in between.     *)
(***************************************************************************)
InitRestore == InitWith(BOOLEAN, {"game"}, {[image |-> ImageOptions, text |-> TextOptions]})

NextRestore ==
    \/ (\E d \in BOOLEAN : Draw2dHelper_Default(d)) /\ UNCHANGED nCalls
    \/ (\E d \in BOOLEAN : Draw2dHelper_Explicit("game", d)) /\ UNCHANGED nCalls
    \/ (\E h \in Helpers : Destructor(h)) /\ UNCHANGED nCalls
    \/ (\E d \in BOOLEAN : Call_SetDeferPrimitives("game", d)) /\ UNCHANGED nCalls

SpecRestore == InitRestore /\ [][NextRestore]_vars

(***************************************************************************)
(* SpecMixed: helper scopes nested in LIFO order, each with the deferCalls *)
(* its caller passes or the default false, images and text drawn through   *)
(* any live helper, and the flush.                                         *)
(***************************************************************************)
InitMixed == InitWith({FALSE}, {"game"}, {[image |-> ImageOptions, text |-> TextOptions]})

NextMixed ==
    \/ (\E d \in BOOLEAN : Draw2dHelper_Default(d)) /\ UNCHANGED nCalls
    \/ (\E d \in BOOLEAN : Draw2dHelper_Explicit("game", d)) /\ UNCHANGED nCalls
    \/ (\E h \in Helpers, a \in DrawImageArgs : DrawImage(h, a)) /\ UNCHANGED nCalls
    \/ (\E h \in Helpers, a \in DrawTextArgs : DrawText(h, a)) /\ UNCHANGED nCalls
    \/ (scopes # <<>> /\ Destructor(Top)) /\ UNCHANGED nCalls
    \/ Call_RenderDeferredPrimitives("game") /\ UNCHANGED nCalls

SpecMixed == InitMixed /\ [][NextMixed]_vars

(***************************************************************************)
(* SpecLocator: helpers constructed with and without an engine while the   *)
(* global environment's pLyShine is set, cleared or pointed elsewhere.     *)
(***************************************************************************)
\* The global environment gets, loses or changes its LyShine interface.
SetLocator(p) ==
    /\ pLyShine' = p
    /\ ret' = void
    /\ UNCHANGED <<engines, helpers, scopes, nDraws, nSets>>

Locators == Engines \cup {NULL}

InitLocator == InitWith({FALSE}, {NULL, "game"}, {[image |-> ImageOptions, text |-> TextOptions]})

NextLocator ==
    \/ (\E p \in {NULL, "game"} : SetLocator(p)) /\ UNCHANGED nCalls
    \/ Draw2dHelper_Default(TRUE) /\ UNCHANGED nCalls
    \/ (\E e \in {NULL, "other"} : Draw2dHelper_Explicit(e, TRUE)) /\ UNCHANGED nCalls
    \/ (\E h \in Helpers, a \in DrawImageArgs : DrawImage(h, a)) /\ UNCHANGED nCalls
    \/ (scopes # <<>> /\ Destructor(Top)) /\ UNCHANGED nCalls

SpecLocator == InitLocator /\ [][NextLocator]_vars

(***************************************************************************)
(* Properties.                                                             *)
(***************************************************************************)
Game == engines["game"]

Last(seq) == seq[Len(seq)]

Ids(prims) == [i \in 1..Len(prims) |-> prims[i].id]

IsPrefix(s, t) == Len(s) <= Len(t) /\ SubSeq(t, 1, Len(s)) = s

\* The frames of `frames` whose helper is bound to engine e.
FramesOn(frames, e) == SelectSeq(frames, LAMBDA f : helpers[f.h].m_draw2d = e)

\* C1: with helper scopes nested in LIFO order and no other writer of the
\* defer flag, the step that ends the innermost scope of a bound helper
\* leaves its engine in the mode it had before that helper was opened, and
\* that mode is the one the enclosing helper on the same engine, if there is
\* one, was opened with: after B ends the mode is D1, after A ends it is D0.
C1_NestedScopesRestore ==
    [][Len(scopes') < Len(scopes) =>
        LET f == Last(scopes)
            e == helpers[f.h].m_draw2d
            outer == FramesOn(scopes', e)
        IN  e # NULL =>
              /\ engines'[e].deferPrimitives = f.before[e]
              /\ outer # <<>> => f.before[e] = Last(outer).deferCalls]_vars

\* Three nested scopes on the game's engine, each opened with the mode the
\* engine was not in.
C1_Witness ==
    /\ Len(scopes) = 3
    /\ \A i \in 1..3 : /\ helpers[scopes[i].h].m_draw2d = "game"
                       /\ scopes[i].deferCalls # scopes[i].before["game"]

\* A step that submits one draw call.
DrawStep == nDraws' = nDraws + 1

\* The step appends exactly one primitive, the draw call just submitted,
\* to the end of `before`, giving `after`.
AppendsSubmitted(before, after) ==
    /\ Len(after) = Len(before) + 1
    /\ SubSeq(after, 1, Len(before)) = before
    /\ Last(after).id = nDraws'

\* C2: in Deferred mode every draw call adds exactly one primitive to the
\* end of the queue, so N draw calls queue N primitives in submission
\* order; RenderDeferredPrimitives rasterizes exactly the queued primitives,
\* in queue order, after what was rasterized before, and leaves the queue
\* empty; a flush of an empty queue changes no state.
C2_FlushRasterizesQueueInOrder ==
    [][/\ (DrawStep /\ Game.deferPrimitives) =>
             AppendsSubmitted(Game.deferredPrimitives, Game'.deferredPrimitives)
       /\ \A i, j \in 1..Len(Game'.deferredPrimitives) :
             i < j => Game'.deferredPrimitives[i].id < Game'.deferredPrimitives[j].id
       /\ Call_RenderDeferredPrimitives("game") =>
             /\ Game'.rasterized = Game.rasterized \o Game.deferredPrimitives
             /\ Game'.deferredPrimitives = <<>>
             /\ Game.deferredPrimitives = <<>> => UNCHANGED vars]_vars

\* Two primitives deferred, a third rasterized at once, then the flush: the
\* two come out after it, in the order they were submitted.
C2_Witness ==
    /\ Ids(Game.rasterized) = <<3, 1, 2>>
    /\ Game.deferredPrimitives = <<>>

\* The operations a draw call can be.
DrawOps ==
    {"DrawImage", "DrawImageAligned", "DrawQuad", "DrawLine", "DrawLineTextured",
     "DrawRectOutlineTextured", "DrawText"}

\* C3: the current defer flag alone decides what a draw operation does.
\* While it is false the operation rasterizes its primitive at once and
\* leaves the queue unchanged; while it is true it rasterizes nothing and
\* appends its primitive to the end of the queue.
C3_DeferFlagDecides ==
    [][DrawStep =>
        IF IDraw2d_GetDeferPrimitives(Game)
        THEN /\ AppendsSubmitted(Game.deferredPrimitives, Game'.deferredPrimitives)
             /\ Game'.rasterized = Game.rasterized
        ELSE /\ AppendsSubmitted(Game.rasterized, Game'.rasterized)
             /\ Game'.deferredPrimitives = Game.deferredPrimitives]_vars

\* A primitive was rasterized at once while another one was waiting in the
\* queue, and a third was queued after it.
C3_Witness ==
    /\ Ids(Game.deferredPrimitives) = <<1, 3>>
    /\ Ids(Game.rasterized) = <<2>>

\* C5: RenderDeferredPrimitives does not change the engine's mode:
\* GetDeferPrimitives() returns after a flush what it returned before it,
\* whether the queue was empty or not.
C5_FlushKeepsMode ==
    [][Call_RenderDeferredPrimitives("game") =>
        IDraw2d_GetDeferPrimitives(Game') = IDraw2d_GetDeferPrimitives(Game)]_vars

\* After a flush that rasterized a deferred primitive behind an immediate
\* one, the engine is in Deferred mode and a later draw call is queued.
C5_Witness ==
    /\ Ids(Game.rasterized) = <<2, 1>>
    /\ Ids(Game.deferredPrimitives) = <<3>>
    /\ Game.deferPrimitives

\* C4: RenderDeferredPrimitives is the only operation that removes
\* primitives from the deferred queue: every other step (a draw call,
\* SetDeferPrimitives, SetSortKey, a query, a helper's construction, setter
\* or destruction) leaves the queue as it was or with primitives appended
\* at its end.
C4_OnlyFlushDrains ==
    [][\A e \in Engines :
          \/ Call_RenderDeferredPrimitives(e)
          \/ IsPrefix(engines[e].deferredPrimitives, engines'[e].deferredPrimitives)]_vars

\* A primitive is still queued after three calls, none of them a draw call
\* after it, and every helper is gone again.
C4_Witness ==
    /\ Len(Game.deferredPrimitives) = 1
    /\ nDraws = 1
    /\ nCalls = 3
    /\ scopes = <<>>

\* Helper h resolved no engine.
Inert(h) == helpers[h].alive /\ helpers[h].m_draw2d = NULL

\* C6: when a helper resolved no engine, its forwarding draw methods and
\* its destructor change no engine (nothing is rasterized, nothing queued,
\* no defer flag written) and its GetTextSize returns the zero vector.
C6_InertHelperIsNoOp ==
    [][\A h \in Helpers : Inert(h) =>
          /\ (HelperDraw(h) \/ Destructor(h)) => engines' = engines
          /\ \A t \in Texts, p \in PointSizes :
                GetTextSize(h, t, p) => /\ ret' = <<"GetTextSize", <<0, 0>>>>
                                        /\ engines' = engines]_vars

\* An inert helper drew and measured a text: the draw call is counted, the
\* game's engine has nothing queued or rasterized, and the size returned is
\* zero.
C6_Witness ==
    /\ \E h \in Helpers : Inert(h)
    /\ nDraws = 1
    /\ Game.deferredPrimitives = <<>> /\ Game.rasterized = <<>>
    /\ ret[1] = "GetTextSize" /\ ret[2] = <<0, 0>>

\* The primitive a draw step added to engine e.
Submitted(e) ==
    IF Len(engines'[e].deferredPrimitives) > Len(engines[e].deferredPrimitives)
    THEN Last(engines'[e].deferredPrimitives)
    ELSE Last(engines'[e].rasterized)

\* C7 as the claim states it: every forwarding draw method of a bound
\* helper, and GetTextSize, passes the helper's local option records, so
\* the rounding, clamp and render state that reach the engine are those of
\* the helper's m_imageOptions and the text options those of m_textOptions.
C7_EveryDrawPassesLocalOptions ==
    [][\A h \in Helpers : Bound(h) =>
        LET e == helpers[h].m_draw2d
            io == helpers[h].m_imageOptions
            to == helpers[h].m_textOptions
        IN  /\ \A a \in DrawImageArgs : DrawImage(h, a) => Submitted(e).options = <<io>>
            /\ \A a \in DrawImageAlignedArgs :
                  DrawImageAligned(h, a) => Submitted(e).options = <<io>>
            /\ \A a \in DrawQuadArgs : DrawQuad(h, a) =>
                  /\ Submitted(e).args.pixelRounding = io.pixelRounding
                  /\ Submitted(e).args.clamp = io.m_clamp
                  /\ Submitted(e).args.renderState = io.m_renderState
            /\ \A a \in DrawLineArgs : DrawLine(h, a) =>
                  /\ Submitted(e).args.pixelRounding = io.pixelRounding
                  /\ Submitted(e).args.renderState = io.m_renderState
            /\ \A a \in DrawLineTexturedArgs : DrawLineTextured(h, a) =>
                  /\ Submitted(e).args.pixelRounding = io.pixelRounding
                  /\ Submitted(e).args.renderState = io.m_renderState
            /\ \A a \in DrawRectOutlineTexturedArgs :
                  DrawRectOutlineTextured(h, a) => Submitted(e).options = <<io>>
            /\ \A a \in DrawTextArgs : DrawText(h, a) => Submitted(e).options = <<to>>
            /\ \A t \in Texts, p \in PointSizes : GetTextSize(h, t, p) =>
                  ret' = <<"GetTextSize", MeasureText(t, p, to)>>]_vars

\* C7, amended: DrawImage and DrawImageAligned pass the helper's
\* m_imageOptions, DrawText and GetTextSize its m_textOptions; DrawQuad,
\* DrawLine and DrawLineTextured pass the rounding, clamp and render state
\* their caller gave (or left to the default arguments), whatever the
\* helper's setters configured, and DrawRectOutlineTextured passes no
\* option record at all.
C7_ImageAndTextDrawsPassLocalOptions ==
    [][\A h \in Helpers : Bound(h) =>
        LET e == helpers[h].m_draw2d
            io == helpers[h].m_imageOptions
            to == helpers[h].m_textOptions
            PassesArgs(a) == Submitted(e).args = a /\ Submitted(e).options = NoOptions
        IN  /\ \A a \in DrawImageArgs : DrawImage(h, a) => Submitted(e).options = <<io>>
            /\ \A a \in DrawImageAlignedArgs :
                  DrawImageAligned(h, a) => Submitted(e).options = <<io>>
            /\ \A a \in DrawQuadArgs : DrawQuad(h, a) => PassesArgs(a)
            /\ \A a \in DrawLineArgs : DrawLine(h, a) => PassesArgs(a)
            /\ \A a \in DrawLineTexturedArgs : DrawLineTextured(h, a) => PassesArgs(a)
            /\ \A a \in DrawRectOutlineTexturedArgs :
                  DrawRectOutlineTextured(h, a) => PassesArgs(a)
            /\ \A a \in DrawTextArgs : DrawText(h, a) => Submitted(e).options = <<to>>
            /\ \A t \in Texts, p \in PointSizes : GetTextSize(h, t, p) =>
                  ret' = <<"GetTextSize", MeasureText(t, p, to)>>]_vars

\* An image was drawn with the rounding only a helper's setter can have
\* configured: the engine's defaults and the direct callers use others.
C7_Witness ==
    \E i \in 1..Len(Game.rasterized \o Game.deferredPrimitives) :
        LET p == (Game.rasterized \o Game.deferredPrimitives)[i]
        IN  p.op = "DrawImage" /\ p.options[1].pixelRounding = "Down"

\* The members of the option records, by name.
OptionFields(hp) ==
    [image_color |-> hp.m_imageOptions.color,
     image_pixelRounding |-> <<hp.m_imageOptions.pixelRounding>>,
     image_clamp |-> hp.m_imageOptions.m_clamp,
     image_blendState |-> hp.m_imageOptions.m_renderState.m_blendState,
     image_depthState |-> hp.m_imageOptions.m_renderState.m_depthState,
     text_fontName |-> <<hp.m_textOptions.fontName>>,
     text_effectIndex |-> hp.m_textOptions.effectIndex,
     text_color |-> hp.m_textOptions.color,
     text_horizontalAlignment |-> <<hp.m_textOptions.horizontalAlignment>>,
     text_verticalAlignment |-> <<hp.m_textOptions.verticalAlignment>>,
     text_dropShadowOffset |-> hp.m_textOptions.dropShadowOffset,
     text_dropShadowColor |-> hp.m_textOptions.dropShadowColor,
     text_rotation |-> hp.m_textOptions.rotation,
     text_depthTestEnabled |-> hp.m_textOptions.depthTestEnabled]

\* The members of helper h's option records that the step changes.
Changed(h) ==
    {f \in DOMAIN OptionFields(helpers[h]) :
        OptionFields(helpers'[h])[f] # OptionFields(helpers[h])[f]}

\* The step changes nothing but members `fields` of helper h's records.
ChangesOnly(h, fields) ==
    /\ engines' = engines
    /\ pLyShine' = pLyShine
    /\ \A g \in Helpers \ {h} : helpers'[g] = helpers[g]
    /\ helpers'[h].alive = helpers[h].alive
    /\ helpers'[h].m_draw2d = helpers[h].m_draw2d
    /\ helpers'[h].m_previousDeferCalls = helpers[h].m_previousDeferCalls
    /\ Changed(h) \subseteq fields

\* C8: a setter of a helper changes only the members it names in that
\* helper's local option records, and gives them the values passed: the
\* engines (default option records, defer flag, sort key, queue) and every
\* other helper are unchanged.
C8_SettersAreLocal ==
    [][nSets' # nSets => \A h \in Helpers :
        LET new == OptionFields(helpers'[h]) IN
        /\ \A b \in BlendArgs : SetImageBlendMode(h, b) =>
              ChangesOnly(h, {"image_blendState"}) /\ new.image_blendState = b
        /\ \A c \in ColorArgs : SetImageColor(h, c) =>
              ChangesOnly(h, {"image_color"}) /\ new.image_color = c
        /\ \A r \in RoundingArgs : SetImagePixelRounding(h, r) =>
              ChangesOnly(h, {"image_pixelRounding"}) /\ new.image_pixelRounding = <<r>>
        /\ \A d \in DepthArgs : SetImageDepthState(h, d) =>
              ChangesOnly(h, {"image_depthState"}) /\ new.image_depthState = d
        /\ \A c \in ClampArgs : SetImageClamp(h, c) =>
              ChangesOnly(h, {"image_clamp"}) /\ new.image_clamp = c
        /\ \A f \in FontArgs : SetTextFont(h, f) =>
              ChangesOnly(h, {"text_fontName"}) /\ new.text_fontName = <<f>>
        /\ \A i \in EffectIndexArgs : SetTextEffectIndex(h, i) =>
              ChangesOnly(h, {"text_effectIndex"}) /\ new.text_effectIndex = i
        /\ \A c \in ColorArgs : SetTextColor(h, c) =>
              ChangesOnly(h, {"text_color"}) /\ new.text_color = c
        /\ \A ha \in HAlignArgs, va \in VAlignArgs : SetTextAlignment(h, ha, va) =>
              /\ ChangesOnly(h, {"text_horizontalAlignment", "text_verticalAlignment"})
              /\ new.text_horizontalAlignment = <<ha>>
              /\ new.text_verticalAlignment = <<va>>
        /\ \A o \in ShadowOffsetArgs, c \in ShadowColorArgs : SetTextDropShadow(h, o, c) =>
              /\ ChangesOnly(h, {"text_dropShadowOffset", "text_dropShadowColor"})
              /\ new.text_dropShadowOffset = o
              /\ new.text_dropShadowColor = c
        /\ \A r \in RotationArgs : SetTextRotation(h, r) =>
              ChangesOnly(h, {"text_rotation"}) /\ new.text_rotation = r
        /\ \A d \in DepthTestArgs : SetTextDepthTestEnabled(h, d) =>
              ChangesOnly(h, {"text_depthTestEnabled"}) /\ new.text_depthTestEnabled = d]_vars

\* Two helpers on the game's engine, one of them reconfigured by a setter:
\* their option records differ, and the engine's defaults are those the
\* other one still holds.
C8_Witness ==
    /\ nSets = 1
    /\ \E h, g \in Helpers :
          /\ helpers[h].m_draw2d = "game" /\ helpers[g].m_draw2d = "game"
          /\ helpers[h].m_imageOptions # helpers[g].m_imageOptions
          /\ helpers[g].m_imageOptions = Game.defaultImageOptions

\* C9: constructing or destroying a helper leaves every engine's deferred
\* queue, rasterized output, sort key, default option records and viewport
\* as they were; of an engine's state only the defer flag can differ.  In
\* particular a destruction neither flushes nor discards queued primitives.
C9_ScopeOnlyTouchesDeferFlag ==
    [][scopes' # scopes =>
        \A e \in Engines :
            engines'[e] = [engines[e] EXCEPT !.deferPrimitives = engines'[e].deferPrimitives]]_vars

\* A helper was opened in Immediate mode over an engine that was deferring:
\* the primitive queued before is still in the queue.
C9_Witness ==
    /\ Len(Game.deferredPrimitives) = 1
    /\ ~Game.deferPrimitives
    /\ \E i \in 1..Len(scopes) : /\ helpers[scopes[i].h].m_draw2d = "game"
                                 /\ scopes[i].before["game"]
                                 /\ ~scopes[i].deferCalls

\* C10: over an engine that starts in Immediate mode with an empty queue,
\* with a deferring helper: every draw call through the helper appends its
\* primitive to the queue and rasterizes nothing, so after k calls the
\* queue holds k primitives; the end of the helper's scope puts the engine
\* back in Immediate mode and leaves queue and rasterized output alone;
\* RenderDeferredPrimitives then rasterizes exactly the queued primitives.
\* At every moment the k primitives drawn so far are those rasterized
\* followed by those queued, in submission order.
C10_DeferredScopeThenFlush ==
    [][/\ Ids(Game'.rasterized \o Game'.deferredPrimitives) = [i \in 1..nDraws' |-> i]
       /\ Game'.deferPrimitives = (scopes' # <<>>)
       /\ DrawStep =>
             /\ AppendsSubmitted(Game.deferredPrimitives, Game'.deferredPrimitives)
             /\ Game'.rasterized = Game.rasterized
       /\ Len(scopes') < Len(scopes) =>
             /\ ~Game'.deferPrimitives
             /\ Game'.deferredPrimitives = Game.deferredPrimitives
             /\ Game'.rasterized = Game.rasterized
       /\ Call_RenderDeferredPrimitives("game") =>
             /\ Game'.rasterized = Game.rasterized \o Game.deferredPrimitives
             /\ Game'.deferredPrimitives = <<>>]_vars

\* The helper's scope has ended after two draw calls: the engine is in
\* Immediate mode again, both primitives are still queued and nothing was
\* rasterized.
C10_Witness ==
    /\ scopes = <<>>
    /\ ~Game.deferPrimitives
    /\ Ids(Game.deferredPrimitives) = <<1, 2>>
    /\ Game.rasterized = <<>>

\* C11: the step that constructs a helper with flag d on a resolved engine
\* leaves that engine's defer mode equal to d whatever it was before, the
\* helper's m_previousDeferCalls equal to the mode before the step, and the
\* helper's local ImageOptions and TextOptions equal to the default records
\* the engine held at the step.
C11_ConstructionPostcondition ==
    [][Len(scopes') > Len(scopes) =>
        LET f == Last(scopes')
            hp == helpers'[f.h]
            e == hp.m_draw2d
        IN  e # NULL =>
              /\ IDraw2d_GetDeferPrimitives(engines'[e]) = f.deferCalls
              /\ hp.m_previousDeferCalls = IDraw2d_GetDeferPrimitives(engines[e])
              /\ hp.m_imageOptions = IDraw2d_GetDefaultImageOptions(engines[e])
              /\ hp.m_textOptions = IDraw2d_GetDefaultTextOptions(engines[e])]_vars

\* A helper constructed with flag FALSE over a deferring engine whose
\* defaults were reconfigured: the engine is in Immediate mode and the
\* helper holds TRUE and the reconfigured records.
C11_Witness ==
    /\ Len(scopes) = 1
    /\ ~Game.deferPrimitives
    /\ LET hp == helpers[scopes[1].h]
       IN  /\ hp.m_draw2d = "game"
           /\ hp.m_previousDeferCalls
           /\ hp.m_imageOptions = ReconfiguredImageOptions
           /\ hp.m_textOptions = ReconfiguredTextOptions

\* The primitives of `prims` tagged `key`, in their order in `prims`.
WithKey(prims, key) == SelectSeq(prims, LAMBDA p : p.key = key)

\* C12: a primitive submitted in Deferred mode is queued with the sort key
\* current at its submission; SetSortKey changes the key of later
\* submissions only and leaves the queue, tags included, as it is; no step
\* but a flush touches what is queued; and a flush rasterizes the queued
\* primitives with their tags, those sharing a key in submission order.
C12_SortKeyTagsLaterSubmissions ==
    [][/\ (DrawStep /\ Game.deferPrimitives) =>
             /\ AppendsSubmitted(Game.deferredPrimitives, Game'.deferredPrimitives)
             /\ Last(Game'.deferredPrimitives).key = Game.sortKey
             /\ Game'.sortKey = Game.sortKey
       /\ \A k \in SortKeys : Call_SetSortKey("game", k) =>
             /\ Game'.sortKey = k
             /\ Game'.deferredPrimitives = Game.deferredPrimitives
             /\ Game'.rasterized = Game.rasterized
       /\ Call_RenderDeferredPrimitives("game") =>
             \A k \in SortKeys :
                 WithKey(Game'.rasterized, k) =
                     WithKey(Game.rasterized, k) \o WithKey(Game.deferredPrimitives, k)]_vars

\* Three primitives were queued under the keys 1, 0, 1 and then flushed,
\* and the key was changed again after the flush.
C12_Witness ==
    /\ Len(Game.rasterized) = 3
    /\ \A i \in 1..3 : Game.rasterized[i].id = i
    /\ Game.rasterized[1].key = 1 /\ Game.rasterized[2].key = 0 /\ Game.rasterized[3].key = 1
    /\ Game.sortKey = 0

\* The corner coordinate the alignment asks for, in exact arithmetic:
\* the position, the position less half the extent, or less the extent.
AlignedExactly(p, s, alignment) ==
    CASE alignment \in {"Left", "Top"} -> p.n
      [] alignment = "Center" -> p.n - s.n \div 2
      [] alignment \in {"Right", "Bottom"} -> p.n - s.n

\* C13: for each of the nine alignment pairs and every position and size,
\* Align returns x = position.x, position.x - size.x / 2 or
\* position.x - size.x for Left, Center and Right, and y likewise for Top,
\* Center and Bottom (the float nearest to that value, which is the value
\* itself wherever it is a float); x depends on the horizontal alignment
\* and the x inputs only, y on the vertical alignment and the y inputs
\* only; Align((100, 50), (20, 10), Center, Bottom) is (90, 40).
C13_AlignReturnsAlignedCorner ==
    [][\A px, py \in AlignCoordinates, sx, sy \in AlignExtents, ha \in HAlign, va \in VAlign :
          Call_Align(<<px, py>>, <<sx, sy>>, ha, va) =>
              /\ ret'[2][1] = Float(Fl(AlignedExactly(px, sx, ha)), px.s)
              /\ ret'[2][2] = Float(Fl(AlignedExactly(py, sy, va)), py.s)
              /\ IsFloat(Float(AlignedExactly(px, sx, ha), px.s))
                    => ret'[2][1].n = AlignedExactly(px, sx, ha)
              /\ IsFloat(Float(AlignedExactly(py, sy, va), py.s))
                    => ret'[2][2].n = AlignedExactly(py, sy, va)
              /\ \A qy \in AlignCoordinates, ty \in AlignExtents, vb \in VAlign :
                    Align(<<px, qy>>, <<sx, ty>>, ha, vb)[1] = ret'[2][1]
              /\ \A qx \in AlignCoordinates, tx \in AlignExtents, hb \in HAlign :
                    Align(<<qx, py>>, <<tx, sy>>, hb, va)[2] = ret'[2][2]
              /\ Align(<<Pixels(100), Pixels(50)>>, <<Pixels(20), Pixels(10)>>,
                       "Center", "Bottom") = <<Pixels(90), Pixels(40)>>]_vars

\* Align has returned (90, 40), the corner of the 20 by 10 rectangle
\* aligned Center and Bottom at (100, 50).
C13_Witness == ret = <<"Align", <<Pixels(90), Pixels(40)>>>>

\* The coordinate the rounding policy asks for, in exact arithmetic: v,
\* floor(v + 0.5), floor(v) or ceil(v).
RoundedExactly(x, roundingType) ==
    CASE roundingType = "None" -> x.n
      [] roundingType = "Nearest" -> ((x.n + 2^(x.s - 1)) \div 2^x.s) * 2^x.s
      [] roundingType = "Down" -> (x.n \div 2^x.s) * 2^x.s
      [] roundingType = "Up" -> -(((-x.n) \div 2^x.s) * 2^x.s)

\* C14: for each of the four policies and every value, each coordinate
\* of RoundXY(value, policy) is exactly v for None, floor(v + 0.5) for
\* Nearest, floor(v) for Down and ceil(v) for Up, of that coordinate alone.
C14_RoundXYMatchesFormula ==
    [][\A x, y \in RoundCoordinates, r \in Rounding :
          Call_RoundXY(<<x, y>>, r) =>
              /\ ret'[2][1] = Float(RoundedExactly(x, r), x.s)
              /\ ret'[2][2] = Float(RoundedExactly(y, r), y.s)]_vars

\* C15: RoundXY is idempotent: rounding its result again with the same
\* policy returns the result unchanged, for every policy and value.
C15_RoundXYIdempotent ==
    [][\A x, y \in RoundCoordinates, r \in Rounding :
          Call_RoundXY(<<x, y>>, r) => RoundXY(ret'[2], r) = ret'[2]]_vars

\* RoundXY has returned (1, -1), as it does for (0.5, -1.5) rounded
\* Nearest, which differs from its argument.
C15_Witness == ret = <<"RoundXY", <<Fine(2^25), Fine(-(2^25))>>>>

\* An engine whose default option records were not reconfigured: they are
\* the records of the declarations.
Unreconfigured(e) ==
    /\ e.defaultImageOptions = ImageOptions
    /\ e.defaultTextOptions = TextOptions

\* The documented default image options: tint white, rounding Nearest, no
\* clamp, blending enabled as alpha-over, depth test disabled.
DocumentedImageDefaults(o) ==
    /\ o.color = <<1, 1, 1>>
    /\ o.pixelRounding = "Nearest"
    /\ o.m_clamp = FALSE
    /\ o.m_renderState.m_blendState.m_enable = TRUE
    /\ o.m_renderState.m_blendState.m_blendSource = "AlphaSource"
    /\ o.m_renderState.m_blendState.m_blendDest = "AlphaSourceInverse"
    /\ o.m_renderState.m_depthState.m_enable = FALSE

\* The documented default text options: aligned Left and Top, rotation 0,
\* a drop shadow colour of zero alpha.
DocumentedTextDefaults(o) ==
    /\ o.horizontalAlignment = "Left"
    /\ o.verticalAlignment = "Top"
    /\ o.rotation = 0
    /\ o.dropShadowColor[4] = 0

\* C16: on an engine that was not reconfigured, GetDefaultImageOptions and
\* GetDefaultTextOptions return the documented defaults, and a helper
\* constructed on that engine starts with exactly these records.
C16_DocumentedDefaults ==
    [][Unreconfigured(Game) =>
          /\ Call_GetDefaultImageOptions("game") => DocumentedImageDefaults(ret'[2])
          /\ Call_GetDefaultTextOptions("game") => DocumentedTextDefaults(ret'[2])
          /\ \A h \in Helpers :
                (~Alive(h) /\ helpers'[h].alive /\ helpers'[h].m_draw2d = "game") =>
                    /\ DocumentedImageDefaults(helpers'[h].m_imageOptions)
                    /\ DocumentedTextDefaults(helpers'[h].m_textOptions)
                    /\ helpers'[h].m_imageOptions = IDraw2d_GetDefaultImageOptions(Game)
                    /\ helpers'[h].m_textOptions = IDraw2d_GetDefaultTextOptions(Game)]_vars

\* GetDefaultTextOptions has returned the documented defaults while a
\* helper constructed on the game's engine holds the same records.
C16_Witness ==
    /\ ret = <<"GetDefaultTextOptions", TextOptions>>
    /\ \E h \in Helpers :
          /\ Bound(h)
          /\ helpers[h].m_imageOptions = ImageOptions
          /\ helpers[h].m_textOptions = TextOptions

QueryNames ==
    {"GetTextSize", "GetViewportWidth", "GetViewportHeight",
     "GetViewportDpiScalingFactor", "GetDefaultImageOptions",
     "GetDefaultTextOptions", "GetDeferPrimitives"}

\* C17: GetTextSize, GetViewportWidth, GetViewportHeight,
\* GetViewportDpiScalingFactor, GetDefaultImageOptions,
\* GetDefaultTextOptions and GetDeferPrimitives are pure queries, called on
\* the engine or, for GetTextSize, through a helper, in either mode: the
\* defer flag, the sort key, the queue and the default records of every
\* engine are as before the call, and nothing is rasterized.
C17_QueriesArePure ==
    [][ret'[1] \in QueryNames =>
          \A e \in Engines :
              /\ engines'[e].deferPrimitives = engines[e].deferPrimitives
              /\ engines'[e].sortKey = engines[e].sortKey
              /\ engines'[e].deferredPrimitives = engines[e].deferredPrimitives
              /\ engines'[e].defaultImageOptions = engines[e].defaultImageOptions
              /\ engines'[e].defaultTextOptions = engines[e].defaultTextOptions
              /\ engines'[e].rasterized = engines[e].rasterized]_vars

\* A helper's GetTextSize has returned the size of "Hi" while the engine
\* is in Deferred mode with a primitive queued.
C17_Witness ==
    /\ ret[1] = "GetTextSize"
    /\ ret[2] # <<0, 0>>
    /\ Game.deferPrimitives
    /\ Game.deferredPrimitives # <<>>
    /\ \E h \in Helpers : Bound(h)

\* A step that draws a too long text on the game's engine, directly or
\* through a helper bound to it.
OverlongDraw ==
    \E a \in TextArgs :
        /\ TooLong(a.textString)
        /\ \/ Call_DrawText("game", a, nullptr)
           \/ \E h \in Helpers : Bound(h) /\ DrawText(h, a)

\* C18: DrawText with a string of more than 1024 characters, terminator
\* included, is surfaced as a precondition violation under the engine's one
\* fixed policy, the same in Immediate and Deferred mode and on the engine
\* or through a helper: the violation is reported; a rejecting engine
\* submits nothing and a truncating engine submits the text cut to the
\* characters that fit, as any draw is submitted in the current mode; the
\* mode, the sort key and the policy stay, and the queue and the output
\* change by that submission only.
C18_OverlongTextSurfaced ==
    [][OverlongDraw =>
          LET queue == Game.deferredPrimitives
              output == Game.rasterized
              target == IF Game.deferPrimitives THEN Game'.deferredPrimitives
                                               ELSE Game'.rasterized
          IN  /\ Game'.violations = Game.violations + 1
              /\ Game'.deferPrimitives = Game.deferPrimitives
              /\ Game'.sortKey = Game.sortKey
              /\ Game'.overlongText = Game.overlongText
              /\ Game.overlongText \in OverlongPolicies
              /\ Game.overlongText = "reject" =>
                    /\ Game'.deferredPrimitives = queue
                    /\ Game'.rasterized = output
              /\ Game.overlongText = "truncate" =>
                    /\ Game.deferPrimitives =>
                          /\ AppendsSubmitted(queue, Game'.deferredPrimitives)
                          /\ Game'.rasterized = output
                    /\ ~Game.deferPrimitives =>
                          /\ AppendsSubmitted(output, Game'.rasterized)
                          /\ Game'.deferredPrimitives = queue
                    /\ Last(target).op = "DrawText"
                    /\ Last(target).key = Game.sortKey
                    /\ Last(target).args.textString = LongestText]_vars

\* A truncating engine in Deferred mode has reported a violation and holds
\* a queued text of the maximum length, with a helper bound to it.
C18_Witness ==
    /\ Game.overlongText = "truncate"
    /\ Game.deferPrimitives
    /\ Game.violations = 1
    /\ Len(Game.deferredPrimitives) = 1
    /\ Len(Game.deferredPrimitives[1].args.textString) = MAX_TEXT_STRING_LENGTH - 1
    /\ \E h \in Helpers : Bound(h)

\* C19: DrawImageAligned(image, position, size, hAlign, vAlign, opacity,
\* rotation, uvRect, options), on the engine or through a helper, produces
\* the primitive that DrawImage(image, Align(position, size, hAlign,
\* vAlign), size, opacity, rotation, pivotPoint = position, uvRect, options)
\* produces, for all nine alignments: the top left corner is the one Align
\* returns and the pivot of the rotation is the position.
C19_AlignedIsDrawImageAtAlignedCorner ==
    [][\A a \in AlignedImageArgs :
          LET submitted == IF Game.deferPrimitives THEN Last(Quads(Game').deferredPrimitives)
                                                   ELSE Last(Quads(Game').rasterized)
              Same(imageOptions) ==
                  /\ Quads(Game') = Quads(IDraw2d_DrawImage(Game, AsDrawImage(a),
                                                            imageOptions, nDraws + 1))
                  /\ submitted.topLeft = Align(a.position, a.size,
                                               a.horizontalAlignment, a.verticalAlignment)
                  /\ submitted.pivot = a.position
          IN  /\ Call_DrawImageAligned("game", a, nullptr) => Same(nullptr)
              /\ \A h \in Helpers :
                    (Bound(h) /\ DrawImageAligned(h, a)) =>
                        Same(AddressOf(helpers[h].m_imageOptions))]_vars

\* A helper with its own pixel rounding has queued an image aligned Center
\* and Bottom: the quad's corner is (90, 40) and its pivot (100, 50).
C19_Witness ==
    /\ Game.deferPrimitives
    /\ Len(Game.deferredPrimitives) = 1
    /\ Game.deferredPrimitives[1].op = "DrawImageAligned"
    /\ Game.deferredPrimitives[1].options[1].pixelRounding = "Down"
    /\ Quad(Game.deferredPrimitives[1]).topLeft = <<Pixels(90), Pixels(40)>>
    /\ Quad(Game.deferredPrimitives[1]).pivot = <<Pixels(100), Pixels(50)>>

\* The frame recorded when helper h was constructed.
FrameOf(h) == scopes[CHOOSE i \in 1..Len(scopes) : scopes[i].h = h]

\* C20: right after the destruction of a bound helper the defer mode of
\* its engine is the value GetDeferPrimitives returned at the helper's
\* construction, whatever happened in between: SetDeferPrimitives calls on
\* the engine are overwritten, and so are the modes of other helpers
\* constructed or destroyed meanwhile, in any order.
C20_DestructionRestoresCapturedMode ==
    [][\A h \in Helpers :
          (Bound(h) /\ ~helpers'[h].alive) =>
              engines'[helpers[h].m_draw2d].deferPrimitives
                  = FrameOf(h).before[helpers[h].m_draw2d]]_vars

\* The helper constructed first was destroyed first: the second helper
\* lives on, it found the engine in Deferred mode, and the engine is back
\* in Immediate mode.
C20_Witness ==
    /\ ~Alive(1)
    /\ Bound(2)
    /\ scopes = <<[h |-> 2, deferCalls |-> FALSE,
                   before |-> [e \in Engines |-> e = "game"]]>>
    /\ helpers[2].m_previousDeferCalls
    /\ ~Game.deferPrimitives

\* C21: a helper constructed with deferCalls = false inside the scope of a
\* deferring helper switches the engine to Immediate mode for its scope:
\* the draws issued in that scope are rasterized at once, ahead of what the
\* outer scope queued, and are not enqueued; when the inner scope ends the
\* engine defers again and the draws of the outer scope are enqueued.
C21_InnerImmediateScope ==
    [][/\ (Len(scopes') > Len(scopes) /\ ~Last(scopes').deferCalls) =>
             /\ ~Game'.deferPrimitives
             /\ Game'.deferredPrimitives = Game.deferredPrimitives
             /\ Game'.rasterized = Game.rasterized
       /\ (DrawStep /\ scopes # <<>> /\ ~Last(scopes).deferCalls) =>
             /\ AppendsSubmitted(Game.rasterized, Game'.rasterized)
             /\ Game'.deferredPrimitives = Game.deferredPrimitives
       /\ (DrawStep /\ scopes # <<>> /\ Last(scopes).deferCalls) =>
             /\ AppendsSubmitted(Game.deferredPrimitives, Game'.deferredPrimitives)
             /\ Game'.rasterized = Game.rasterized
       /\ (Len(scopes') < Len(scopes) /\ scopes' # <<>>) =>
             /\ Game'.deferPrimitives = Last(scopes').deferCalls
             /\ Game'.deferredPrimitives = Game.deferredPrimitives
             /\ Game'.rasterized = Game.rasterized]_vars

\* The outer scope defers and has queued draws 1 and 3; the draw of the
\* inner scope, 2, issued between them, is rasterized already and the
\* inner scope has ended.
C21_Witness ==
    /\ Len(scopes) = 1
    /\ scopes[1].deferCalls
    /\ Game.deferPrimitives
    /\ Ids(Game.rasterized) = <<2>>
    /\ Ids(Game.deferredPrimitives) = <<1, 3>>

\* The engines other than the one helper h holds are as before the step;
\* with no engine held, every engine is.
OnlyOwnEngine(h) ==
    \A e \in Engines : e # helpers[h].m_draw2d => engines'[e] = engines[e]

\* C22: a helper's engine is resolved once, at construction, and is fixed
\* while the helper lives: an explicit non-null engine is used as given, a
\* null or omitted one is what the default locator returns then; every
\* forwarded call and the destructor's restore go to that engine, whatever
\* the locator names by then; a helper that resolved no engine stays inert.
C22_EngineResolvedOnce ==
    [][/\ \A d \in BOOLEAN :
             /\ Draw2dHelper_Default(d) => helpers'[FreeSlot].m_draw2d = pLyShine
             /\ \A e \in Locators :
                   Draw2dHelper_Explicit(e, d) =>
                       helpers'[FreeSlot].m_draw2d = IF e # NULL THEN e ELSE pLyShine
       /\ \A h \in Helpers :
             /\ (Alive(h) /\ helpers'[h].alive) =>
                   helpers'[h].m_draw2d = helpers[h].m_draw2d
             /\ (\E a \in DrawImageArgs : DrawImage(h, a)) =>
                   /\ OnlyOwnEngine(h)
                   /\ Bound(h) =>
                         Len(engines'[helpers[h].m_draw2d].rasterized
                                \o engines'[helpers[h].m_draw2d].deferredPrimitives)
                            = Len(EngineOf(h).rasterized \o EngineOf(h).deferredPrimitives) + 1
             /\ Destructor(h) =>
                   /\ OnlyOwnEngine(h)
                   /\ Bound(h) =>
                         engines'[helpers[h].m_draw2d].deferPrimitives
                            = helpers[h].m_previousDeferCalls]_vars

\* Helper 1 found no engine and has drawn to no effect although an engine
\* was there by then; helper 2, constructed later, holds the game's engine
\* and has drawn on it in Deferred mode; the locator is cleared again.
C22_Witness ==
    /\ Alive(1) /\ helpers[1].m_draw2d = NULL
    /\ Bound(2) /\ helpers[2].m_draw2d = "game"
    /\ pLyShine = NULL
    /\ nDraws = 2
    /\ Ids(Game.deferredPrimitives) = <<2>>
    /\ Game.rasterized = <<>>
    /\ engines["other"].rasterized = <<>>

=============================================================================
